---- MODULE Spec2Model ----
(***************************************************************************)
(* State-machine model of assignment_3/scoping_demo.cpp: a tree-walking    *)
(* interpreter that runs one statement tree under static and under         *)
(* dynamic scoping.  The C++ recursion (execute_stmt -> Function::call ->  *)
(* execute_stmt) is made explicit as a stack of frames; the heap of        *)
(* Environment and Function objects is a pair of sequences indexed by      *)
(* allocation order, so a pointer is an index and nullptr is 0.            *)
(***************************************************************************)
EXTENDS Integers, Sequences, FiniteSets

VARIABLES
    program,        \* the statement vector handed to run_program
    plan,           \* scoping modes main has still to run, in order
    phase,          \* where main is: "main", "run_program", "call_g",
                    \* "exit", "terminated", "stack_overflow"
    scoping_mode,   \* the scoping_mode string of the run in progress
    envs,           \* heap of Environment objects (index = pointer)
    funcs,          \* heap of Function objects (index = pointer)
    stack,          \* active execute_stmt loops, innermost last
    retval,         \* Value returned by the latest Function::call
    output,         \* integers written to std::cout, per run section
    failure,        \* the runtime_error that ended the process, if any
    roots,          \* main's env_static / env_dynamic
    lastGet         \* the latest Environment::get: who asked, what, where found

vars == <<program, plan, phase, scoping_mode, envs, funcs, stack, retval,
          output, failure, roots, lastGet>>

----------------------------------------------------------------------------
(* Bounds of the model.                                                    *)

\* longest body of g in the program family
MaxBody == 3
\* number of nested Function::call activations the machine stack can hold
MaxDepth == 4

----------------------------------------------------------------------------
(* Data model: Value, Expr, Statement.                                     *)

nullptr == 0

Modes == {"static", "dynamic"}

\* Value(int v) : type(INT), int_val(v), func_val(nullptr)
IntValue(v) == [type |-> "INT", int_val |-> v, func_val |-> nullptr]

\* Value(Function* f) : type(FUNC), func_val(f); int_val is left
\* uninitialised, so the record has no int_val field.
FuncValue(f) == [type |-> "FUNC", func_val |-> f]

\* Value() : type(INT), int_val(0), func_val(nullptr)
DefaultValue == IntValue(0)

\* What reading the uninitialised int_val of a FUNC Value may yield.
Indeterminate == {0, -1}

IntLit(v) == [type |-> "INT_LIT", int_val |-> v]
Var(n) == [type |-> "VAR", var_name |-> n]

AssignStmt(n, e) == [stmt_type |-> "ASSIGN", name |-> n, expr |-> e]
PrintStmt(e) == [stmt_type |-> "PRINT", name |-> "", expr |-> e]
CallStmt(n) == [stmt_type |-> "CALL", name |-> n]
DefStmt(n, b) == [stmt_type |-> "DEF", name |-> n, body |-> b]

\* x = 10; def f(): print(x); def g(): <gbody>
ProgramWith(gbody) ==
    << AssignStmt("x", IntLit(10)),
       DefStmt("f", <<PrintStmt(Var("x"))>>),
       DefStmt("g", gbody) >>

example_program == ProgramWith(<<AssignStmt("x", IntLit(20)), CallStmt("f")>>)

call_g == CallStmt("g")

\* Statements the body of g is drawn from: the two of the example, a read
\* of x, recursion, a call of an integer, a nested definition with an empty
\* body and with one that reads x and copies the function value h into its
\* own y, its call (unbound before the definition), and a print of a
\* function value.
BodyStmts ==
    { AssignStmt("x", IntLit(20)),
      CallStmt("f"),
      PrintStmt(Var("x")),
      CallStmt("g"),
      CallStmt("x"),
      DefStmt("h", <<>>),
      DefStmt("h", <<PrintStmt(Var("x")), AssignStmt("y", Var("h"))>>),
      CallStmt("h"),
      PrintStmt(Var("f")) }

Bodies == UNION { [1..n -> BodyStmts] : n \in 0..MaxBody }

Programs == { ProgramWith(b) : b \in Bodies }

----------------------------------------------------------------------------
(* Environment.                                                            *)

\* Environment(Environment* p = nullptr) : parent(p), vars empty.
\* owner is the Function whose call allocated the object (nullptr for a
\* global environment); alive turns FALSE at delete.
NewEnvironment(p, f) ==
    [vars |-> [n \in {} |-> DefaultValue], parent |-> p, alive |-> TRUE,
     owner |-> f]

NotFound == [type |-> "THROW"]

\* Environment::get without the delegation to the parent.
GetNoDelegate(e, n) ==
    IF n \in DOMAIN envs[e].vars THEN envs[e].vars[n] ELSE NotFound

\* Environment::get: the local map first, then the parent, else throw.
RECURSIVE Get(_, _)
Get(e, n) ==
    IF n \in DOMAIN envs[e].vars
    THEN envs[e].vars[n]
    ELSE IF envs[e].parent # nullptr
         THEN Get(envs[e].parent, n)
         ELSE NotFound

\* The Environment in which Environment::get finds n (nullptr if it throws).
RECURSIVE FoundIn(_, _)
FoundIn(e, n) ==
    IF n \in DOMAIN envs[e].vars
    THEN e
    ELSE IF envs[e].parent # nullptr
         THEN FoundIn(envs[e].parent, n)
         ELSE nullptr

\* Environment::set writing through to the enclosing Environment.
SetTargetOuter(e) == IF envs[e].parent # nullptr THEN envs[e].parent ELSE e

\* The Environment whose map Environment::set writes: its own.
SetTarget(e) == e

\* Environment::set: vars[name] = value, in the local map only.
Set(e, n, v) ==
    [envs EXCEPT ![SetTarget(e)].vars =
        [k \in DOMAIN @ \cup {n} |-> IF k = n THEN v ELSE @[k]]]

\* execute_expr
Eval(expr, e) ==
    IF expr.type = "INT_LIT"
    THEN IntValue(expr.int_val)
    ELSE Get(e, expr.var_name)

----------------------------------------------------------------------------
(* Frames.                                                                 *)

NoFailure == [kind |-> "none", name |-> ""]
NoGet == [env |-> nullptr, name |-> "", found |-> nullptr]

Running == phase \in {"run_program", "call_g"} /\ stack # <<>>

Top == stack[Len(stack)]

\* The statement vector a frame iterates over.
BodyOf(fr) ==
    IF fr.fn # nullptr THEN funcs[fr.fn].body
    ELSE IF phase = "run_program" THEN program ELSE <<call_g>>

AtStmt == Running /\ Top.pc <= Len(BodyOf(Top))

Stmt == BodyOf(Top)[Top.pc]

\* Number of Function::call activations in progress.
ActiveInvocations == Cardinality({i \in 1..Len(stack) : stack[i].fn # nullptr})

\* Function::call executing the statement without keeping its value.
AdvanceDropResult(fr, v) == [fr EXCEPT !.pc = @ + 1]

\* "result = execute_stmt(...)" in Function::call; run_program and main
\* discard the value.
Advance(fr, v) ==
    IF fr.fn # nullptr
    THEN [fr EXCEPT !.pc = @ + 1, !.result = v]
    ELSE [fr EXCEPT !.pc = @ + 1]

ReplaceTop(fr) == [stack EXCEPT ![Len(stack)] = fr]

\* Function::call taking the call-site Environment in both modes.
InvocationParentCallSite(f, call_env, mode) == call_env

\* Function::call taking the definition Environment in both modes.
InvocationParentDefinition(f, call_env, mode) == funcs[f].definition_env

\* The parent of a call's fresh Environment.
InvocationParent(f, call_env, mode) ==
    IF mode = "static" THEN funcs[f].definition_env ELSE call_env

\* The Value a Function::call starts its result with.
InitialResult == DefaultValue

\* The Environment Function::call deletes before it returns.
DeletedEnv(fr) == fr.env

----------------------------------------------------------------------------
(* Initial states.                                                         *)

InitCommon ==
    /\ program \in Programs
    /\ phase = "main"
    /\ scoping_mode = "none"
    /\ envs = <<>>
    /\ funcs = <<>>
    /\ stack = <<>>
    /\ retval = DefaultValue
    /\ output = [m \in Modes |-> <<>>]
    /\ failure = NoFailure
    /\ roots = [m \in Modes |-> nullptr]
    /\ lastGet = NoGet

\* main: the static run, then the dynamic run.
Init == InitCommon /\ plan = <<"static", "dynamic">>

\* A driver that makes one run, in either mode.
InitRun == InitCommon /\ plan \in {<<"static">>, <<"dynamic">>}

----------------------------------------------------------------------------
(* Actions.                                                                *)

\* main prints the section header and enters run_program, which allocates
\* the global environment.
StartRun ==
    /\ phase = "main"
    /\ plan # <<>>
    /\ scoping_mode' = Head(plan)
    /\ plan' = Tail(plan)
    /\ envs' = Append(envs, NewEnvironment(nullptr, nullptr))
    /\ stack' = <<[fn |-> nullptr, env |-> Len(envs) + 1, pc |-> 1,
                   result |-> DefaultValue]>>
    /\ phase' = "run_program"
    /\ UNCHANGED <<program, funcs, retval, output, failure, roots, lastGet>>

\* The name a statement looks up with Environment::get, if any.
Reads(s) ==
    IF s.stmt_type = "CALL" THEN {s.name}
    ELSE IF s.stmt_type \in {"ASSIGN", "PRINT"} /\ s.expr.type = "VAR"
         THEN {s.expr.var_name}
         ELSE {}

GetRecord(s) ==
    IF Reads(s) = {} THEN lastGet
    ELSE LET n == CHOOSE k \in Reads(s) : TRUE
         IN [env |-> Top.env, name |-> n, found |-> FoundIn(Top.env, n)]

\* execute_stmt, ASSIGN
ExecAssign ==
    /\ AtStmt
    /\ Stmt.stmt_type = "ASSIGN"
    /\ LET value == Eval(Stmt.expr, Top.env)
       IN /\ value # NotFound
          /\ envs' = Set(Top.env, Stmt.name, value)
          /\ stack' = ReplaceTop(Advance(Top, value))
    /\ lastGet' = GetRecord(Stmt)
    /\ UNCHANGED <<program, plan, phase, scoping_mode, funcs, retval, output,
                   failure, roots>>

\* execute_stmt, PRINT
ExecPrint ==
    /\ AtStmt
    /\ Stmt.stmt_type = "PRINT"
    /\ LET value == Eval(Stmt.expr, Top.env)
       IN /\ value # NotFound
          /\ \E shown \in (IF value.type = "INT" THEN {value.int_val}
                           ELSE Indeterminate) :
                output' = [output EXCEPT ![scoping_mode] = Append(@, shown)]
          /\ stack' = ReplaceTop(Advance(Top, value))
    /\ lastGet' = GetRecord(Stmt)
    /\ UNCHANGED <<program, plan, phase, scoping_mode, envs, funcs, retval,
                   failure, roots>>

\* execute_stmt, DEF
ExecDef ==
    /\ AtStmt
    /\ Stmt.stmt_type = "DEF"
    /\ LET func == Len(funcs) + 1
       IN /\ funcs' = Append(funcs, [name |-> Stmt.name, body |-> Stmt.body,
                                     definition_env |-> Top.env])
          /\ envs' = Set(Top.env, Stmt.name, FuncValue(func))
          /\ stack' = ReplaceTop(Advance(Top, FuncValue(func)))
    /\ UNCHANGED <<program, plan, phase, scoping_mode, retval, output,
                   failure, roots, lastGet>>

\* execute_stmt, CALL, up to the first statement of the body: look the
\* name up, enter Function::call, allocate the fresh Environment.
ExecCall ==
    /\ AtStmt
    /\ Stmt.stmt_type = "CALL"
    /\ LET func_val == Get(Top.env, Stmt.name)
       IN /\ func_val # NotFound
          /\ func_val.type = "FUNC"
          /\ ActiveInvocations < MaxDepth
          /\ envs' = Append(envs,
                 NewEnvironment(InvocationParent(func_val.func_val, Top.env,
                                                 scoping_mode),
                                func_val.func_val))
          /\ stack' = Append(stack, [fn |-> func_val.func_val,
                                     env |-> Len(envs) + 1, pc |-> 1,
                                     result |-> InitialResult])
    /\ lastGet' = GetRecord(Stmt)
    /\ UNCHANGED <<program, plan, phase, scoping_mode, funcs, retval, output,
                   failure, roots>>

\* Function::call after its loop: delete env, return result; the caller's
\* CALL statement is then complete.
Return ==
    /\ Running
    /\ Top.fn # nullptr
    /\ Top.pc > Len(BodyOf(Top))
    /\ envs' = [envs EXCEPT ![DeletedEnv(Top)].alive = FALSE]
    /\ retval' = Top.result
    /\ LET caller == stack[Len(stack) - 1]
       IN stack' = [SubSeq(stack, 1, Len(stack) - 1)
                      EXCEPT ![Len(stack) - 1] = Advance(caller, Top.result)]
    /\ UNCHANGED <<program, plan, phase, scoping_mode, funcs, output, failure,
                   roots, lastGet>>

\* run_program after its loop: return global_env, which main stores in
\* env_static or env_dynamic before it executes call_g.
RunProgramReturn ==
    /\ phase = "run_program"
    /\ Len(stack) = 1
    /\ Top.pc > Len(program)
    /\ roots' = [roots EXCEPT ![scoping_mode] = Top.env]
    /\ phase' = "call_g"
    /\ stack' = <<[fn |-> nullptr, env |-> Top.env, pc |-> 1,
                   result |-> DefaultValue]>>
    /\ UNCHANGED <<program, plan, scoping_mode, envs, funcs, retval, output,
                   failure, lastGet>>

\* main after execute_stmt(call_g, ...) has returned.
MainCallReturn ==
    /\ phase = "call_g"
    /\ Len(stack) = 1
    /\ Top.pc > 1
    /\ phase' = "main"
    /\ stack' = <<>>
    /\ UNCHANGED <<program, plan, scoping_mode, envs, funcs, retval, output,
                   failure, roots, lastGet>>

\* main: delete env_static; delete env_dynamic; return 0.
Cleanup ==
    /\ phase = "main"
    /\ plan = <<>>
    /\ envs' = [e \in DOMAIN envs |->
                  IF \E m \in Modes : roots[m] = e
                  THEN [envs[e] EXCEPT !.alive = FALSE]
                  ELSE envs[e]]
    /\ phase' = "exit"
    /\ UNCHANGED <<program, plan, scoping_mode, funcs, stack, retval, output,
                   failure, roots, lastGet>>

\* Where an exception leaves the program: no frame catches it, and main has
\* no handler, so the process ends there; no delete runs.
Terminate(kind, n) ==
    /\ phase' = "terminated"
    /\ failure' = [kind |-> kind, name |-> n]
    /\ stack' = <<>>
    /\ UNCHANGED <<program, plan, scoping_mode, envs, funcs, retval, output,
                   roots>>

\* Environment::get throws "Variable '<name>' not found".
ThrowNotFound ==
    /\ AtStmt
    /\ \E n \in Reads(Stmt) :
          /\ Get(Top.env, n) = NotFound
          /\ Terminate("UnboundVariable", n)
    /\ lastGet' = GetRecord(Stmt)

\* execute_stmt, CALL, throws "'<name>' is not a function".
ThrowNotAFunction ==
    /\ AtStmt
    /\ Stmt.stmt_type = "CALL"
    /\ LET func_val == Get(Top.env, Stmt.name)
       IN /\ func_val # NotFound
          /\ func_val.type # "FUNC"
    /\ Terminate("NotAFunction", Stmt.name)
    /\ lastGet' = GetRecord(Stmt)

\* A call with MaxDepth activations already on the machine stack: the
\* process dies of stack exhaustion.
StackOverflow ==
    /\ AtStmt
    /\ Stmt.stmt_type = "CALL"
    /\ LET func_val == Get(Top.env, Stmt.name)
       IN /\ func_val # NotFound
          /\ func_val.type = "FUNC"
    /\ ActiveInvocations >= MaxDepth
    /\ phase' = "stack_overflow"
    /\ lastGet' = GetRecord(Stmt)
    /\ UNCHANGED <<program, plan, scoping_mode, envs, funcs, stack, retval,
                   output, failure, roots>>

Next ==
    \/ StartRun
    \/ ExecAssign
    \/ ExecPrint
    \/ ExecDef
    \/ ExecCall
    \/ Return
    \/ RunProgramReturn
    \/ MainCallReturn
    \/ Cleanup
    \/ ThrowNotFound
    \/ ThrowNotAFunction
    \/ StackOverflow

Spec == Init /\ [][Next]_vars

SpecRun == InitRun /\ [][Next]_vars

TypeOK ==
    /\ phase \in {"main", "run_program", "call_g", "exit", "terminated",
                  "stack_overflow"}
    /\ scoping_mode \in Modes \cup {"none"}
    /\ \A e \in DOMAIN envs : envs[e].parent \in 0..Len(envs)
    /\ \A f \in DOMAIN funcs : funcs[f].definition_env \in 1..Len(envs)
    /\ \A i \in DOMAIN stack : stack[i].env \in 1..Len(envs)

----------------------------------------------------------------------------
(* Vocabulary of the properties.                                           *)

Names == {"x", "y", "f", "g", "h"}

\* The run in mode m has executed call_g to the end.
RunDone(m) ==
    /\ roots[m] # nullptr
    /\ ~(scoping_mode = m /\ phase = "call_g")

\* A step that executes the statement the innermost frame is at.
StmtStep == AtStmt /\ vars' # vars

\* A step that completes a Function::call.
ReturnStep ==
    /\ Running
    /\ Top.fn # nullptr
    /\ Top.pc > Len(BodyOf(Top))
    /\ vars' # vars

\* The latest Environment::get was made by an invocation of a Function and
\* found the name in the child Environment of another invocation of that
\* same Function.
ObservesOther ==
    /\ lastGet.env # nullptr
    /\ lastGet.found # nullptr
    /\ lastGet.found # lastGet.env
    /\ envs[lastGet.env].owner # nullptr
    /\ envs[lastGet.found].owner = envs[lastGet.env].owner

\* Depth of Define/Call nesting of a statement tree: a Call counts one
\* level, a Define one level more than the deepest statement of its body.
RECURSIVE StmtDepth(_)
StmtDepth(s) ==
    IF s.stmt_type = "CALL" THEN 1
    ELSE IF s.stmt_type = "DEF"
         THEN LET inner == {StmtDepth(s.body[i]) : i \in DOMAIN s.body}
              IN 1 + (IF inner = {} THEN 0
                      ELSE CHOOSE d \in inner : \A k \in inner : k <= d)
         ELSE 0

NestingDepth ==
    LET ds == {StmtDepth(program[i]) : i \in DOMAIN program}
              \cup {StmtDepth(call_g)}
    IN CHOOSE d \in ds : \A k \in ds : k <= d

----------------------------------------------------------------------------
(* C1: under static scoping the example program, followed by main's call   *)
(* of g, prints exactly 10: f's free x resolves in the global environment  *)
(* where f was defined, not in g's local x = 20.                           *)
StaticPrints10 ==
    program = example_program =>
        /\ output["static"] \in {<<>>, <<10>>}
        /\ RunDone("static") => output["static"] = <<10>>

StaticRunOfExampleDone ==
    /\ program = example_program
    /\ RunDone("static")
    /\ Len(output["static"]) = 1

(* C2: under dynamic scoping the same program, followed by main's call of  *)
(* g, prints exactly 20: f's free x resolves in the environment of its     *)
(* caller g.                                                               *)
DynamicPrints20 ==
    program = example_program =>
        /\ output["dynamic"] \in {<<>>, <<20>>}
        /\ RunDone("dynamic") => output["dynamic"] = <<20>>

DynamicRunOfExampleDone ==
    /\ program = example_program
    /\ RunDone("dynamic")
    /\ Len(output["dynamic"]) = 1

(* C3, as claimed: in either mode, no lookup made by one invocation of a   *)
(* Function is answered from the child Environment of another invocation   *)
(* of the same Function.                                                   *)
NeverObservesOtherInvocation == ~ObservesOther

(* C3, amended: every invocation starts with a newly allocated, empty      *)
(* Environment; a lookup made by one invocation is answered from the       *)
(* child Environment of another invocation of the same Function only       *)
(* under dynamic scoping, and only when that other invocation is still     *)
(* active below it on the call stack (a nested call) - never under static  *)
(* scoping and never from an invocation that has returned.                 *)
FreshChildStep ==
    (StmtStep /\ Len(stack') = Len(stack) + 1) =>
        LET child == stack'[Len(stack')].env
        IN /\ child \notin DOMAIN envs
           /\ envs'[child].vars = [n \in {} |-> DefaultValue]
           /\ envs'[child].alive

LookupIsolationStep ==
    (StmtStep /\ Reads(Stmt) # {} /\ ObservesOther') =>
        /\ scoping_mode = "dynamic"
        /\ lastGet'.env = Top.env
        /\ \E i \in 1..(Len(stack) - 1) :
              /\ stack[i].env = lastGet'.found
              /\ envs[stack[i].env].alive

InvocationIsolation == [][FreshChildStep /\ LookupIsolationStep]_vars

\* Static scoping, a recursive invocation of g reads x while the enclosing
\* invocation of g holds its own x, and the read is answered elsewhere.
NestedInvocationReadsPastOuter ==
    /\ scoping_mode = "static"
    /\ \E i, j \in DOMAIN stack :
          /\ i < j
          /\ stack[i].fn # nullptr
          /\ stack[i].fn = stack[j].fn
          /\ lastGet.env = stack[j].env
          /\ lastGet.name \in DOMAIN envs[stack[i].env].vars
          /\ lastGet.found # nullptr
          /\ lastGet.found # stack[i].env

(* C4: chain delegation.  In every live Environment E a name with no local *)
(* binding is looked up exactly as in E's parent, and with no parent the   *)
(* lookup fails; a statement whose lookup fails ends the run with          *)
(* UnboundVariable(name) instead of going on with a default value; a       *)
(* lookup changes no Environment's mapping.                                *)
ChainDelegationInv ==
    \A e \in DOMAIN envs : \A n \in Names :
        (envs[e].alive /\ n \notin DOMAIN envs[e].vars) =>
            IF envs[e].parent # nullptr
            THEN Get(e, n) = Get(envs[e].parent, n)
            ELSE Get(e, n) = NotFound

UnboundFailsStep ==
    StmtStep =>
        \A n \in Reads(Stmt) :
            FoundIn(Top.env, n) = nullptr =>
                /\ phase' = "terminated"
                /\ failure' = [kind |-> "UnboundVariable", name |-> n]
                /\ output' = output
                /\ envs' = envs

GetIsPureStep ==
    (StmtStep /\ Stmt.stmt_type \in {"PRINT", "CALL"}) =>
        \A e \in DOMAIN envs : envs'[e] = envs[e]

ChainDelegation ==
    /\ []ChainDelegationInv
    /\ [][UnboundFailsStep /\ GetIsPureStep]_vars

\* A call of the unbound h has ended the run, and the invocation whose
\* Environment has no local x sees the global x through its parent.
UnboundLookupFailed ==
    /\ failure = [kind |-> "UnboundVariable", name |-> "h"]
    /\ \E e \in DOMAIN envs :
          /\ envs[e].alive
          /\ envs[e].parent # nullptr
          /\ "x" \notin DOMAIN envs[e].vars
          /\ Get(e, "x") = IntValue(10)

(* C5: assignment is local-only.  Executing Assign(n, e) or Define(n, b)   *)
(* in Environment E changes E's mapping at key n and nothing else: every   *)
(* other Environment, and every other key of E, is unchanged; so the       *)
(* global x keeps the value the program gave it whatever a body assigns.   *)
AssignLocalStep ==
    (StmtStep /\ Stmt.stmt_type \in {"ASSIGN", "DEF"}
              /\ phase' # "terminated") =>
        LET E == Top.env
            n == Stmt.name
        IN /\ DOMAIN envs' = DOMAIN envs
           /\ \A e \in DOMAIN envs : e # E => envs'[e] = envs[e]
           /\ DOMAIN envs'[E].vars = DOMAIN envs[E].vars \cup {n}
           /\ \A k \in DOMAIN envs[E].vars :
                 k # n => envs'[E].vars[k] = envs[E].vars[k]
           /\ envs'[E].parent = envs[E].parent
           /\ envs'[E].alive = envs[E].alive
           /\ Stmt.stmt_type = "ASSIGN" =>
                 envs'[E].vars[n] = Eval(Stmt.expr, E)
           /\ Stmt.stmt_type = "DEF" =>
                 envs'[E].vars[n] = FuncValue(Len(funcs) + 1)

GlobalXKept ==
    \A e \in DOMAIN envs :
        (envs[e].owner = nullptr /\ "x" \in DOMAIN envs[e].vars) =>
            envs[e].vars["x"] = IntValue(10)

AssignIsLocalOnly == []GlobalXKept /\ [][AssignLocalStep]_vars

\* An invocation has assigned x = 20 in its own Environment while the
\* global Environment, its ancestor, binds x too.
BodyShadowsGlobalX ==
    \E i \in DOMAIN stack :
        /\ stack[i].fn # nullptr
        /\ "x" \in DOMAIN envs[stack[i].env].vars
        /\ envs[stack[i].env].vars["x"] = IntValue(20)
        /\ "x" \in DOMAIN envs[stack[1].env].vars
        /\ Get(stack[1].env, "x") = IntValue(10)

(* C6: definition-environment liveness.  Whenever a live Environment holds *)
(* a binding to a Function, the Environment that Function captured at its  *)
(* definition has not been deleted.                                        *)
DefinitionEnvAlive ==
    \A e \in DOMAIN envs : \A n \in DOMAIN envs[e].vars :
        (envs[e].alive /\ envs[e].vars[n].type = "FUNC") =>
            envs[funcs[envs[e].vars[n].func_val].definition_env].alive

\* A Function defined inside an invocation is bound in the Environment of
\* a deeper invocation, after the Environment of some completed call has
\* been deleted.
NestedFunctionBoundAfterDelete ==
    /\ \E e \in DOMAIN envs : \E n \in DOMAIN envs[e].vars :
          /\ envs[e].alive
          /\ envs[e].vars[n].type = "FUNC"
          /\ funcs[envs[e].vars[n].func_val].definition_env # e
          /\ envs[funcs[envs[e].vars[n].func_val].definition_env].owner
                # nullptr
    /\ \E d \in DOMAIN envs : ~envs[d].alive

(* C7, as claimed: a failure raised during one run ends only that run, so  *)
(* when the process has stopped on a failure the other run has been made   *)
(* as well (main has no run left to start).                                *)
FailureEndsOnlyItsRun == phase = "terminated" => plan = <<>>

(* C8: call result.  A Function::call that completes returns the value of  *)
(* the last statement of its body - the assigned value for Assign, the     *)
(* printed value for Print, the new FunctionRef for Define, the callee's   *)
(* own result for Call - and Integer 0 when the body is empty; a calling   *)
(* body receives that value as the value of its Call statement.            *)
CallResultStep ==
    ReturnStep =>
        LET body == BodyOf(Top)
            E == Top.env
            caller == stack'[Len(stack')]
        IN /\ IF body = <<>>
              THEN retval' = IntValue(0)
              ELSE LET s == body[Len(body)]
                   IN CASE s.stmt_type = "ASSIGN" ->
                             /\ retval' = envs[E].vars[s.name]
                             /\ s.expr.type = "INT_LIT" =>
                                   retval' = IntValue(s.expr.int_val)
                        [] s.stmt_type = "PRINT" ->
                             /\ retval' = Eval(s.expr, E)
                             /\ retval'.type = "INT" =>
                                   /\ output[scoping_mode] # <<>>
                                   /\ output[scoping_mode]
                                         [Len(output[scoping_mode])]
                                       = retval'.int_val
                        [] s.stmt_type = "DEF" ->
                             /\ retval'.type = "FUNC"
                             /\ retval' = envs[E].vars[s.name]
                             /\ funcs[retval'.func_val].name = s.name
                             /\ funcs[retval'.func_val].body = s.body
                             /\ funcs[retval'.func_val].definition_env = E
                        [] s.stmt_type = "CALL" ->
                             retval' = retval
           /\ caller.fn # nullptr => caller.result = retval'

CallResult == [][CallResultStep]_vars

\* The program has run to its end, a call of a Function with an empty body
\* has completed, and the latest call returned Integer 0.
EmptyAndAssigningBodiesReturned ==
    /\ \E e \in DOMAIN envs :
          /\ ~envs[e].alive
          /\ envs[e].owner # nullptr
          /\ funcs[envs[e].owner].body = <<>>
    /\ retval = DefaultValue
    /\ phase = "exit"

(* C9, as claimed: once control has left an invocation, on completion or   *)
(* on failure, its child Environment is no longer allocated: every live    *)
(* child Environment belongs to an invocation still on the call stack.     *)
ChildEnvDiscarded ==
    \A e \in DOMAIN envs :
        (envs[e].owner # nullptr /\ envs[e].alive) =>
            \E i \in DOMAIN stack : stack[i].env = e

(* C10, as claimed: the number of simultaneously active invocations never  *)
(* exceeds the depth of Define/Call nesting of the program, and the run    *)
(* does not die of unbounded recursion.                                    *)
CallDepthBounded ==
    /\ ActiveInvocations <= NestingDepth
    /\ phase # "stack_overflow"

====
